---- MODULE Spec2Model ----
(***************************************************************************)
(* A model of chasten's analyze command (src/chasten/main.py): the loop    *)
(* that runs every configured check against the search path, evaluates its *)
(* match count against the optional min/max thresholds and builds the      *)
(* results document, together with the helpers it calls.                    *)
(***************************************************************************)
EXTENDS Integers, Sequences, FiniteSets, TLC

\* ------------------------------------------------------------------------
\* Bounds of the model
\* ------------------------------------------------------------------------

\* the largest number of configured checks in one run
MaxChecks == 2

\* the largest number of records the query engine yields in one run: the
\* stream of a check is no longer than MaxStream less the real matches that
\* the earlier checks of the run found
MaxStream == 3

\* the min/max threshold a configured check carries when it carries one
MaxThreshold == 2

\* the largest match count and threshold of the evaluation model
MaxCount == 6

\* the largest number of lines of a file of the match model
MaxLines == 5

\* the largest column offset of the match model
MaxCol == 1

\* ------------------------------------------------------------------------
\* Values
\* ------------------------------------------------------------------------

\* Python's None and a present Optional value
None == <<>>

Some(v) == <<v>>

\* constants.markers.Space, constants.markers.Newline and a tab character;
\* a string is a sequence of one-character strings
Space == " "

Tab == "\t"

Newline == "\n"

\* constants.markers.Code_Context: lines of context around a match
Code_Context == 2

Min2(a, b) == IF a <= b THEN a ELSE b

Max2(a, b) == IF a >= b THEN a ELSE b

\* ------------------------------------------------------------------------
\* The files on the search path (fixed for the run model)
\* ------------------------------------------------------------------------

FileNames == {"a.py", "b.py"}

FileLines ==
    [f \in FileNames |->
        IF f = "a.py"
        THEN << <<"d", "e", "f">>,
                <<Space, Space, "x">>,
                <<Tab, "y">>,
                <<Space, Tab, "z">>,
                <<"r">> >>
        ELSE << <<"i">>,
                <<Space, "p">>,
                <<"q">> >>]

\* str(str(vd) for vd in valid_directories): the repr of a generator object
GeneratorRepr == "<generator object analyze.<locals>.<genexpr>>"

\* ------------------------------------------------------------------------
\* Pure helpers
\* ------------------------------------------------------------------------

\* str.lstrip(chars): drop the leading characters that are in chars
RECURSIVE lstrip(_, _)
lstrip(s, chars) ==
    IF s = <<>> THEN s
    ELSE IF Head(s) \in chars THEN lstrip(Tail(s), chars)
    ELSE s

\* data[start:end] for 0 <= start: the 0-based half-open Python slice
PySlice(data, start, end) ==
    SubSeq(data, start + 1, Min2(end, Len(data)))

\* sep.join(lines)
RECURSIVE Join(_, _)
Join(lines, sep) ==
    IF lines = <<>> THEN <<>>
    ELSE IF Len(lines) = 1 THEN Head(lines)
    ELSE Head(lines) \o <<sep>> \o Join(Tail(lines), sep)

\* util.join_and_preserve
join_and_preserve(data, start, end) == Join(PySlice(data, start, end), Newline)

\* ------------------------------------------------------------------------
\* Collaborators of analyze that live in other modules of the package
\* ------------------------------------------------------------------------

\* checks.is_checkable: a check is enforceable when a threshold is present
is_checkable(min_value, max_value) == min_value # None \/ max_value # None

\* checks.check_match_count: the count lies within the present thresholds
check_match_count(count, min_value, max_value) ==
    IF min_value # None /\ max_value # None
    THEN min_value[1] <= count /\ count <= max_value[1]
    ELSE IF min_value # None THEN count >= min_value[1]
    ELSE IF max_value # None THEN count <= max_value[1]
    ELSE TRUE

\* process.filter_matches: (records of the data type, the other records)
filter_matches(match_list, data_type) ==
    << SelectSeq(match_list, LAMBDA m : m.kind = data_type),
       SelectSeq(match_list, LAMBDA m : m.kind # data_type) >>

\* one step of process.organize_matches: file the match under its file name,
\* a new file name going to the end (a dict keeps insertion order)
organize_add(match_dict_, m) ==
    IF \E i \in 1..Len(match_dict_) : match_dict_[i].file_name = m.path
    THEN [i \in 1..Len(match_dict_) |->
            IF match_dict_[i].file_name = m.path
            THEN [match_dict_[i] EXCEPT !.matches_list = Append(@, m)]
            ELSE match_dict_[i]]
    ELSE Append(match_dict_, [file_name |-> m.path, matches_list |-> <<m>>])

\* process.organize_matches: group the matches by file name
RECURSIVE organize_from(_, _)
organize_from(match_dict_, match_list) ==
    IF match_list = <<>> THEN match_dict_
    ELSE organize_from(organize_add(match_dict_, Head(match_list)), Tail(match_list))

organize_matches(match_list) == organize_from(<<>>, match_list)

\* the number of entries of a list of booleans that are True
RECURSIVE count_true(_)
count_true(status_list) ==
    IF status_list = <<>> THEN 0
    ELSE (IF Head(status_list) THEN 1 ELSE 0) + count_true(Tail(status_list))

\* util.total_amount_passed: (passed, total, percentage), (0, 0, 0) when empty
total_amount_passed(status_list) ==
    IF Len(status_list) = 0 THEN <<0, 0, 0>>
    ELSE << count_true(status_list), Len(status_list),
            (count_true(status_list) * 100) \div Len(status_list) >>

\* ------------------------------------------------------------------------
\* The records of the query engine and of the results document
\* ------------------------------------------------------------------------

\* a pyastgrep Match: the file, its lines and the position of the match
RawMatch(f, lineno, col) ==
    [kind |-> "Match", path |-> f, file_lines |-> FileLines[f],
     lineno |-> lineno, col_offset |-> col]

\* the record pyastgrep yields when it has finished a file
FileFinished(f) ==
    [kind |-> "FileFinished", path |-> f, file_lines |-> <<>>,
     lineno |-> 0, col_offset |-> 0]

\* the matches the engine can report for the files of the run model
RawMatches ==
    {RawMatch("a.py", 2, 2), RawMatch("a.py", 4, 0), RawMatch("b.py", 2, 1)}

RawRecords == RawMatches \cup {FileFinished("a.py")}

\* every stream of at most n records
StreamsUpTo(n) == UNION {[1..k -> RawRecords] : k \in 0..n}

\* the optional thresholds of a configured check
Thresholds == {None, Some(MaxThreshold)}

\* a configured check; its id is its position in the validated configuration
CheckLists ==
    UNION {
        {[i \in 1..n |-> [id |-> i, min |-> t[i][1], max |-> t[i][2]]] :
            t \in [1..n -> Thresholds \X Thresholds]}
        : n \in 0..MaxChecks}

\* ------------------------------------------------------------------------
\* The steps of analyze
\* ------------------------------------------------------------------------

\* data[i] for a 0-based index i
PyIndex(data, i) == data[i + 1]

\* (variant) the records of the engine are taken as they come
unfiltered_match_list(match_generator) == match_generator

\* list(match_generator) narrowed to the pyastgrep Match records
filtered_match_list(match_generator) == filter_matches(match_generator, "Match")[1]

\* (variant) the thresholds are handed over in the wrong order
check_status_swapped(match_count, min_count, max_count) ==
    IF is_checkable(min_count, max_count)
    THEN check_match_count(match_count, max_count, min_count)
    ELSE TRUE

\* (variant) a check without thresholds passes only when it found a match
check_status_needs_match(match_count, min_count, max_count) ==
    IF is_checkable(min_count, max_count)
    THEN check_match_count(match_count, min_count, max_count)
    ELSE match_count > 0

\* the status of a check: the match count against the thresholds when the
\* check is enforceable, True otherwise
check_status_of(match_count, min_count, max_count) ==
    IF is_checkable(min_count, max_count)
    THEN check_match_count(match_count, min_count, max_count)
    ELSE TRUE

\* the status list after a check: only an enforceable check is appended
status_list_after(status_list, status, min_count, max_count) ==
    IF is_checkable(min_count, max_count)
    THEN Append(status_list, status)
    ELSE status_list

\* results.Source(filename=...): no check and no lines yet
new_source(filename) == [filename |-> filename, check |-> None, filelines |-> <<>>]

\* the Source made before the files of a check are visited
placeholder_source(match_count, check_save) ==
    IF match_count = 0
    THEN [new_source(GeneratorRepr) EXCEPT !.check = check_save]
    ELSE new_source(GeneratorRepr)

\* (variant) the Check is made without the status of the check
new_check_default_passed(current_check, status) ==
    [id |-> current_check.id, min |-> current_check.min, max |-> current_check.max,
     passed |-> TRUE, matches |-> <<>>, raw_matches |-> <<>>]

\* results.Check(...) for one file: no matches yet
new_check(current_check, status) ==
    [id |-> current_check.id, min |-> current_check.min, max |-> current_check.max,
     passed |-> status, matches |-> <<>>, raw_matches |-> <<>>]

\* the first line of the context window (a 0-based slice start)
context_start(position_end) == Max2(0, position_end - Code_Context)

\* the end of the context window (a 0-based exclusive slice end)
context_end(position_end) == position_end + Code_Context

\* (variant) lstrip() without an argument: every leading whitespace goes
stripped_line_all_whitespace(file_lines, position_end) ==
    lstrip(PyIndex(file_lines, position_end - 1), {Space, Tab})

\* the matched line without the leading characters of constants.markers.Space
stripped_line(file_lines, position_end) ==
    lstrip(PyIndex(file_lines, position_end - 1), {Space})

\* results.Match(...) for one pyastgrep Match
new_match(file_lines, position_end, column_offset) ==
    [lineno |-> position_end,
     coloffset |-> column_offset,
     linematch |-> stripped_line(file_lines, position_end),
     linematch_context |->
        join_and_preserve(file_lines, context_start(position_end),
                          context_end(position_end))]

\* (variant) a match equal to one already kept for the file is skipped
add_match_once(acc, current_match) ==
    IF current_match.kind = "Match"
       /\ \A j \in 1..Len(acc.check.raw_matches) :
                acc.check.raw_matches[j] # current_match
    THEN [check |->
            [acc.check EXCEPT
                !.raw_matches = Append(@, current_match),
                !.matches = Append(@, new_match(current_match.file_lines,
                                                current_match.lineno,
                                                current_match.col_offset))],
          filelines |-> current_match.file_lines]
    ELSE acc

\* one turn of the loop over the matches of a file
add_match(acc, current_match) ==
    IF current_match.kind = "Match"
    THEN [check |->
            [acc.check EXCEPT
                !.raw_matches = Append(@, current_match),
                !.matches = Append(@, new_match(current_match.file_lines,
                                                current_match.lineno,
                                                current_match.col_offset))],
          filelines |-> current_match.file_lines]
    ELSE acc

RECURSIVE add_matches(_, _)
add_matches(acc, matches_list) ==
    IF matches_list = <<>> THEN acc
    ELSE add_matches(add_match(acc, Head(matches_list)), Tail(matches_list))

\* (variant) the Source of a file is named like the placeholder Source
source_filename_generator(file_name) == GeneratorRepr

\* the file name given to the Source of one file of the match dictionary
source_filename(file_name) == file_name

\* one turn of the loop over the files of a check: the Source of the file
source_for_file(current_check, status, file_name, matches_list) ==
    LET first_lines ==
            IF Len(matches_list) > 0 THEN matches_list[1].file_lines ELSE <<>>
        filled ==
            add_matches([check |-> new_check(current_check, status),
                         filelines |-> first_lines], matches_list)
    IN  [filename |-> source_filename(file_name),
         check |-> Some(filled.check),
         filelines |-> filled.filelines]

\* (variant) a file that already has a Source does not get another one
sources_after_dedup(sources_, source) ==
    IF \E k \in 1..Len(sources_) : sources_[k].filename = source.filename
    THEN sources_
    ELSE Append(sources_, source)

\* chasten_results_save.sources.append(current_result_source)
sources_after(sources_, source) == Append(sources_, source)

\* all(check_status_list)
all_true(status_list) == \A i \in 1..Len(status_list) : status_list[i]

\* ------------------------------------------------------------------------
\* The options, the calls of the query engine and the end of the run
\* ------------------------------------------------------------------------

\* a Python str and a pathlib.Path: values of two different types
PyStr(text) == [type |-> "str", value |-> text]

PyPath(text) == [type |-> "Path", value |-> text]

\* a == b for a str or a Path: a Path is never equal to a str
py_eq(a, b) == a.type = b.type /\ a.value = b.value

\* the value --xpath-version may be given on the command line, or None
XPathOptions == {None, Some("1.0"), Some("2.0")}

\* xpath: Path = typer.Option(str, ...): the text of the option, or the
\* result of the default str() when the option is absent, becomes a Path
typer_path_option(cli_value) ==
    IF cli_value = None THEN PyPath(".") ELSE PyPath(cli_value[1])

\* the branch taken by: if xpath == "1.0"
is_xpath_one(xpath_) == py_eq(xpath_, PyStr("1.0"))

\* the XPath version that is logged before the loop
logged_version(xpath_) == IF is_xpath_one(xpath_) THEN "1.0" ELSE "2.0"

\* the call of pyastgrepsearch.search_python_files for a check
search_call(check, xpath_) ==
    [id |-> check.id, xpath2 |-> IF is_xpath_one(xpath_) THEN FALSE ELSE TRUE]

\* results.Configuration(...) of a run
new_configuration ==
    [projectname |-> "project", configdirectory |-> "config", searchpath |-> "."]

\* the exception the query engine raises for a pattern it cannot evaluate;
\* the engine is given the pattern only, so the exception names no check
engine_error == [error |-> "XPathEvalError", check_id |-> None]

\* (variant) the exception is caught and the loop goes on to the next check
on_query_failure_skipped(exc, index) ==
    [pc |-> "check", failure |-> Some(exc), check_index |-> index + 1]

\* the query raises inside analyze, which has no handler around it: the
\* exception leaves analyze as it is
on_query_failure(exc, index) ==
    [pc |-> "raised", failure |-> Some(exc), check_index |-> index]

\* (variant) the loop steps over a check
next_check_index_skipping(index) == index + 2

\* for current_check in check_list: on to the next check of the list
next_check_index(index) == index + 1

\* (variant) the document is written only when every kept status is True
save_only_when_passed(saved_, document, status_list) ==
    IF all_true(status_list) THEN Append(saved_, document) ELSE saved_

\* (variant) the document is handed to the writer a second time
save_twice(saved_, document, status_list) ==
    Append(Append(saved_, document), document)

\* filesystem.write_chasten_results(..., chasten_results_save, save)
save_step(saved_, document, status_list) == Append(saved_, document)

\* the most records the engine yields in one run that writes a report
MaxReportStream == 2

\* the records the engine may yield in one run
stream_budget(store_result_) ==
    IF store_result_ = None THEN MaxStream ELSE MaxReportStream

\* the exit status that signals an error
Non_Zero_Exit == 1

\* the text an analysis file holds from an earlier run
OldText == << [text |-> "old results"] >>

\* the runs that ask for a markdown report: with and without --force and
\* --display, with and without an analysis file from an earlier run
MarkdownRuns ==
    {[store_result |-> Some("reports"), force |-> f, display |-> d,
      analysis_file |-> a] :
        f \in BOOLEAN, d \in BOOLEAN, a \in {None, Some(OldText)}}

\* is there a file at the path
confirm_valid_file(file) == file # None

\* (variant) an existing analysis file is cleared without --force as well
prepared_always_cleared(store_result_, force_, display_, file) ==
    IF store_result_ = None
    THEN [pc |-> "check", exit_code |-> None, analysis_file |-> file,
          displayed |-> <<>>]
    ELSE [pc |-> "check", exit_code |-> None, analysis_file |-> Some(<<>>),
          displayed |-> <<>>]

\* the analysis file is made ready before the checks: an existing file
\* ends the run unless --force is given, and is then cleared; a missing
\* file is created empty
prepared(store_result_, force_, display_, file) ==
    IF store_result_ = None
    THEN [pc |-> "check", exit_code |-> None, analysis_file |-> file,
          displayed |-> <<>>]
    ELSE IF confirm_valid_file(file) /\ ~force_
    THEN IF display_
         THEN [pc |-> "exited", exit_code |-> Some(0), analysis_file |-> file,
               displayed |-> << file >>]
         ELSE [pc |-> "exited", exit_code |-> Some(Non_Zero_Exit),
               analysis_file |-> file, displayed |-> <<>>]
    ELSE [pc |-> "check", exit_code |-> None, analysis_file |-> Some(<<>>),
          displayed |-> <<>>]

checkmark_unicode == "checkmark"

xmark_unicode == "xmark"

get_symbol_boolean(answer) ==
    IF answer THEN << "[green]", checkmark_unicode, "[/green]" >>
    ELSE << "[red]", xmark_unicode, "[/red]" >>

\* the heading of a check in the markdown text
check_heading(check, status) ==
    [check_pass |-> IF get_symbol_boolean(status)
                        = << "[green]", "checkmark", "[/green]" >>
                    THEN "PASSED:" ELSE "FAILED:",
     id |-> check.id, min |-> check.min, max |-> check.max]

\* the line of a file in the markdown text
file_line(file_name, matches_list) ==
    [file_name |-> file_name, matches |-> Len(matches_list)]

\* the markdown text grows only when a report is asked for
analysis_result_after(store_result_, analysis_result_, entry) ==
    IF store_result_ # None THEN Append(analysis_result_, entry)
    ELSE analysis_result_

\* (variant) the run succeeds when some kept status is True
exit_status_any_passed(status_list) ==
    IF \E i \in 1..Len(status_list) : status_list[i] THEN 0 ELSE Non_Zero_Exit

\* the exit status of a run that reached the end of its checks
exit_status(status_list) ==
    IF all_true(status_list) THEN 0 ELSE Non_Zero_Exit

\* (variant) the markdown file is written only when every check passed
written_file_when_passed(store_result_, status_list, file, analysis_result_) ==
    IF store_result_ # None /\ exit_status(status_list) = 0
    THEN Some(analysis_result_) ELSE file

\* the markdown file at the end of analyze: written in both outcomes
written_file(store_result_, status_list, file, analysis_result_) ==
    IF exit_status(status_list) # 0
    THEN (IF store_result_ # None THEN Some(analysis_result_) ELSE file)
    ELSE (IF store_result_ # None THEN Some(analysis_result_) ELSE file)

\* frogmouth shows the report of a run of which every check passed
displayed_after(store_result_, display_, status_list, displayed_, file) ==
    IF exit_status(status_list) = 0 /\ store_result_ # None /\ display_
    THEN Append(displayed_, file) ELSE displayed_

VARIABLES
    check_list,             \* the configured checks, after filtering
    pc,                     \* where analyze is
    check_index,            \* the position of current_check in check_list
    match_generator_list,   \* the materialised (then filtered) match list
    match_dict,             \* the matches organised by file
    check_status,           \* the status of the current check
    check_status_list,      \* the statuses kept for the summary
    current_check_save,     \* the Check being filled, or None
    current_result_source,  \* the Source being filled
    file_index,             \* the position in match_dict.items()
    sources,                \* chasten_results_save.sources
    status_lines,           \* the status line printed for each check
    total_lines,            \* the total-matches line printed for each check
    total_result,           \* the run summary, once computed
    saved,                  \* the documents handed to write_chasten_results
    exit_code,              \* the exit status, once analyze has ended
    xpath,                  \* the --xpath-version option as analyze receives it
    logged_xpath,           \* the XPath version logged before the loop
    chasten_configuration,  \* the results.Configuration of the run
    queries,                \* the calls of search_python_files, in order
    failure,                \* the exception that left analyze, or None
    json_dicts,             \* integrate: the parsed JSON result files
    combined_json_dict,     \* integrate: the combined document, once made
    merge_errors,           \* integrate: the inputs reported as invalid
    fs_records,             \* constants: two Filesystem records
    hr_record,              \* constants: a Humanreadable record
    frozen_error,           \* constants: the last assignment raised
    store_result,           \* the --markdown-storage directory, or None
    force,                  \* the --force option
    display,                \* the --display option
    analysis_file,          \* the text of the analysis markdown file, or None
    analysis_result,        \* the markdown text gathered during the run
    displayed               \* the files shown with frogmouth, in order

vars == << check_list, pc, check_index, match_generator_list, match_dict,
           check_status, check_status_list, current_check_save,
           current_result_source, file_index, sources, status_lines,
           total_lines, total_result, saved, exit_code, xpath, logged_xpath,
           chasten_configuration, queries, failure, json_dicts,
           combined_json_dict, merge_errors, fs_records, hr_record,
           frozen_error, store_result, force, display, analysis_file,
           analysis_result, displayed >>

\* the markdown report of analyze: its options, its file and its text
markdown_vars == << store_result, force, display, analysis_file,
                    analysis_result, displayed >>

\* the state of the integrate command
integrate_vars == << json_dicts, combined_json_dict, merge_errors >>

\* the state of the constants records
constants_vars == << fs_records, hr_record, frozen_error >>

\* the state of the analyze command
analyze_vars == << check_list, pc, check_index, match_generator_list,
                   match_dict, check_status, check_status_list,
                   current_check_save, current_result_source, file_index,
                   sources, status_lines, total_lines, total_result, saved,
                   exit_code, xpath, logged_xpath, chasten_configuration,
                   queries, failure, markdown_vars >>

current_check == check_list[check_index]

\* the document of the run as it stands
chasten_results_save ==
    [configuration |-> chasten_configuration, sources |-> sources]

\* the integrate command has not run
IntegrateIdle ==
    /\ json_dicts = <<>>
    /\ combined_json_dict = None
    /\ merge_errors = {}

\* the two kinds of constants records
Filesystem(directory) ==
    [class |-> "Filesystem", Current_Directory |-> directory]

Humanreadable(yes, no) == [class |-> "Humanreadable", Yes |-> yes, No |-> no]

\* the constants records of the package, as the module makes them
ConstantsIdle ==
    /\ fs_records = << Filesystem("."), Filesystem(".") >>
    /\ hr_record = Humanreadable("Yes", "No")
    /\ frozen_error = FALSE

\* analyze was started without --markdown-storage, --force and --display;
\* there is no analysis file
NoMarkdown ==
    [store_result |-> None, force |-> FALSE, display |-> FALSE,
     analysis_file |-> None]

\* no markdown report is asked for
MarkdownIdle ==
    /\ store_result = NoMarkdown.store_result
    /\ force = NoMarkdown.force
    /\ display = NoMarkdown.display
    /\ analysis_file = NoMarkdown.analysis_file
    /\ analysis_result = <<>>
    /\ displayed = <<>>

\* analyze was started without --xpath-version and nothing has failed
DefaultOptions ==
    /\ xpath = typer_path_option(None)
    /\ logged_xpath = logged_version(typer_path_option(None))
    /\ chasten_configuration = new_configuration
    /\ failure = None
    /\ IntegrateIdle
    /\ ConstantsIdle
    /\ MarkdownIdle

\* the state at the start of a run whose --xpath-version is one of
\* cli_values and whose markdown options and analysis file are one of
\* markdown_options
RunInit(cli_values, markdown_options) ==
    /\ check_list \in CheckLists
    /\ pc = "start"
    /\ check_index = 1
    /\ match_generator_list = <<>>
    /\ match_dict = <<>>
    /\ check_status = TRUE
    /\ check_status_list = <<>>
    /\ current_check_save = None
    /\ current_result_source = None
    /\ file_index = 1
    /\ sources = <<>>
    /\ status_lines = <<>>
    /\ total_lines = <<>>
    /\ total_result = None
    /\ saved = None
    /\ exit_code = None
    /\ \E cli_value \in cli_values :
        /\ xpath = typer_path_option(cli_value)
        /\ logged_xpath = logged_version(typer_path_option(cli_value))
    /\ chasten_configuration = new_configuration
    /\ queries = <<>>
    /\ failure = None
    /\ IntegrateIdle
    /\ ConstantsIdle
    /\ \E options \in markdown_options :
        /\ store_result = options.store_result
        /\ force = options.force
        /\ display = options.display
        /\ analysis_file = options.analysis_file
    /\ analysis_result = <<>>
    /\ displayed = <<>>

\* a run started without --xpath-version and without a markdown report
Init == RunInit({None}, {NoMarkdown})

\* a run started with any --xpath-version, or without
InitOptions == RunInit(XPathOptions, {NoMarkdown})

\* a run started with or without a markdown report
InitMarkdown == RunInit({None}, {NoMarkdown} \cup MarkdownRuns)

\* the number of real matches the finished checks found
RECURSIVE matches_so_far(_)
matches_so_far(lines) ==
    IF lines = <<>> THEN 0
    ELSE Head(lines).total + matches_so_far(Tail(lines))

\* the markdown report is made ready, or the run ends on an existing file
Prepare ==
    /\ pc = "start"
    /\ LET outcome == prepared(store_result, force, display, analysis_file)
       IN  /\ pc' = outcome.pc
           /\ exit_code' = outcome.exit_code
           /\ analysis_file' = outcome.analysis_file
           /\ displayed' = outcome.displayed
    /\ UNCHANGED << check_list, check_index, match_generator_list, match_dict,
                    check_status, check_status_list, current_check_save,
                    current_result_source, file_index, sources, status_lines,
                    total_lines, total_result, saved, xpath, logged_xpath,
                    chasten_configuration, queries, failure, integrate_vars,
                    constants_vars, store_result, force, display,
                    analysis_result >>

\* the next check is taken and its pattern is searched for: the engine
\* yields a stream of records, which is materialised
Query ==
    /\ pc = "check"
    /\ check_index <= Len(check_list)
    /\ \E match_generator \in
            StreamsUpTo(stream_budget(store_result) - matches_so_far(total_lines)) :
            match_generator_list' = match_generator
    /\ queries' = Append(queries, search_call(current_check, xpath))
    /\ pc' = "filter"
    /\ UNCHANGED << check_list, check_index, match_dict, check_status,
                    check_status_list, current_check_save,
                    current_result_source, file_index, sources, status_lines,
                    total_lines, total_result, saved, exit_code,
                    xpath, logged_xpath, chasten_configuration, failure,
                    integrate_vars, constants_vars,
                    markdown_vars >>

\* the next check is taken and its pattern is searched for, but the engine
\* raises on the pattern
QueryFails ==
    /\ pc = "check"
    /\ check_index <= Len(check_list)
    /\ queries' = Append(queries, search_call(current_check, xpath))
    /\ LET outcome == on_query_failure(engine_error, check_index)
       IN  /\ pc' = outcome.pc
           /\ failure' = outcome.failure
           /\ check_index' = outcome.check_index
    /\ UNCHANGED << check_list, match_generator_list, match_dict, check_status,
                    check_status_list, current_check_save,
                    current_result_source, file_index, sources, status_lines,
                    total_lines, total_result, saved, exit_code, xpath,
                    logged_xpath, chasten_configuration, integrate_vars,
                    constants_vars, markdown_vars >>

\* the match list is narrowed to the Match records and organised by file
FilterOrganize ==
    /\ pc = "filter"
    /\ match_generator_list' = filtered_match_list(match_generator_list)
    /\ match_dict' = organize_matches(filtered_match_list(match_generator_list))
    /\ pc' = "evaluate"
    /\ UNCHANGED << check_list, check_index, check_status, check_status_list,
                    current_check_save, current_result_source, file_index,
                    sources, status_lines, total_lines, total_result, saved,
                    exit_code,
                    xpath, logged_xpath, chasten_configuration, queries, failure,
                    integrate_vars, constants_vars,
                    markdown_vars >>

\* the status of the check is decided, kept and printed, and the Source
\* that stands for the check before its files are visited is made
Evaluate ==
    LET status == check_status_of(Len(match_generator_list),
                                  current_check.min, current_check.max)
    IN  /\ pc = "evaluate"
        /\ current_check_save' = None
        /\ check_status' = status
        /\ check_status_list' =
                status_list_after(check_status_list, status,
                                  current_check.min, current_check.max)
        /\ status_lines' =
                Append(status_lines, [id |-> current_check.id, passed |-> status])
        /\ current_result_source' =
                Some(placeholder_source(Len(match_generator_list), None))
        /\ file_index' = 1
        /\ analysis_result' =
                analysis_result_after(store_result, analysis_result,
                                      check_heading(current_check, status))
        /\ pc' = "files"
        /\ UNCHANGED << check_list, check_index, match_generator_list,
                        match_dict, sources, total_lines, total_result, saved,
                        exit_code,
                    xpath, logged_xpath, chasten_configuration, queries, failure,
                    integrate_vars, constants_vars,
                    store_result, force, display, analysis_file, displayed >>

\* one file of the match dictionary: its Check and Source are made, filled
\* with the matches of the file and appended to the document
RecordFile ==
    /\ pc = "files"
    /\ file_index <= Len(match_dict)
    /\ LET source == source_for_file(current_check, check_status,
                                     match_dict[file_index].file_name,
                                     match_dict[file_index].matches_list)
       IN  /\ current_check_save' = source.check
           /\ current_result_source' = Some(source)
           /\ sources' = sources_after(sources, source)
    /\ file_index' = file_index + 1
    /\ analysis_result' =
            analysis_result_after(store_result, analysis_result,
                file_line(match_dict[file_index].file_name,
                          match_dict[file_index].matches_list))
    /\ UNCHANGED << check_list, pc, check_index, match_generator_list,
                    match_dict, check_status, check_status_list, status_lines,
                    total_lines, total_result, saved, exit_code,
                    xpath, logged_xpath, chasten_configuration, queries, failure,
                    integrate_vars, constants_vars,
                    store_result, force, display, analysis_file, displayed >>

\* the files of the check are done: its total is printed, on to the next
EndCheck ==
    /\ pc = "files"
    /\ file_index > Len(match_dict)
    /\ total_lines' =
            Append(total_lines, [id |-> current_check.id,
                                 total |-> Len(match_generator_list)])
    /\ check_index' = next_check_index(check_index)
    /\ pc' = "check"
    /\ UNCHANGED << check_list, match_generator_list, match_dict, check_status,
                    check_status_list, current_check_save,
                    current_result_source, file_index, sources, status_lines,
                    total_result, saved, exit_code,
                    xpath, logged_xpath, chasten_configuration, queries, failure,
                    integrate_vars, constants_vars,
                    markdown_vars >>

\* every check is done: the summary of the run is computed and printed
Summarise ==
    /\ pc = "check"
    /\ check_index > Len(check_list)
    /\ total_result' = Some(total_amount_passed(check_status_list))
    /\ pc' = "save"
    /\ UNCHANGED << check_list, check_index, match_generator_list, match_dict,
                    check_status, check_status_list, current_check_save,
                    current_result_source, file_index, sources, status_lines,
                    total_lines, saved, exit_code,
                    xpath, logged_xpath, chasten_configuration, queries, failure,
                    integrate_vars, constants_vars,
                    markdown_vars >>

\* the document is handed to the writer
Save ==
    /\ pc = "save"
    /\ saved' = save_step(saved, chasten_results_save, check_status_list)
    /\ pc' = "exit"
    /\ UNCHANGED << check_list, check_index, match_generator_list, match_dict,
                    check_status, check_status_list, current_check_save,
                    current_result_source, file_index, sources, status_lines,
                    total_lines, total_result, exit_code,
                    xpath, logged_xpath, chasten_configuration, queries, failure,
                    integrate_vars, constants_vars,
                    markdown_vars >>

\* analyze ends: the markdown report is written when asked for, and the
\* exit is non-zero when a kept status is False
Exit ==
    /\ pc = "exit"
    /\ exit_code' = Some(exit_status(check_status_list))
    /\ analysis_file' = written_file(store_result, check_status_list,
                                     analysis_file, analysis_result)
    /\ displayed' = displayed_after(store_result, display, check_status_list,
                                    displayed, Some(analysis_result))
    /\ pc' = "done"
    /\ UNCHANGED << check_list, check_index, match_generator_list, match_dict,
                    check_status, check_status_list, current_check_save,
                    current_result_source, file_index, sources, status_lines,
                    total_lines, total_result, saved,
                    xpath, logged_xpath, chasten_configuration, queries, failure,
                    integrate_vars, constants_vars,
                    store_result, force, display, analysis_result >>

Next ==
    \/ Prepare
    \/ Query
    \/ QueryFails
    \/ FilterOrganize
    \/ Evaluate
    \/ RecordFile
    \/ EndCheck
    \/ Summarise
    \/ Save
    \/ Exit

Spec == Init /\ [][Next]_vars

SpecOptions == InitOptions /\ [][Next]_vars

SpecMarkdown == InitMarkdown /\ [][Next]_vars

\* ------------------------------------------------------------------------
\* Properties of the run
\* ------------------------------------------------------------------------

\* the positions of the Sources of the document whose Check has the id
SourcesOf(id) ==
    {k \in 1..Len(sources) : sources[k].check # None /\ sources[k].check[1].id = id}

\* the checks whose loop turn is over (their total line is printed)
FinishedChecks == 1..Len(total_lines)

\* the checks that are decided (their status line is printed)
DecidedChecks == 1..Len(status_lines)

\* the number of real matches found for a decided check
TotalOf(id) ==
    IF id \in FinishedChecks THEN total_lines[id].total ELSE Len(match_generator_list)

\* min <= n <= max with an absent min as 0 and an absent max as unbounded
WithinThresholds(n, min_count, max_count) ==
    /\ (IF min_count = None THEN 0 ELSE min_count[1]) <= n
    /\ (max_count = None \/ n <= max_count[1])

\* C1: every check that found no real match is represented in the results
\* document by exactly one (placeholder) Source/Check entry.
C1_ZeroMatchCheckHasOneEntry ==
    \A id \in FinishedChecks :
        total_lines[id].total = 0 => Cardinality(SourcesOf(id)) = 1

\* C2: every Check record of the document carries the one verdict of its
\* check, which is the evaluation of the total number of real matches of
\* the check (over all files) against the thresholds of the check.
C2_OneVerdictPerCheck ==
    /\ \A k \in 1..Len(sources) :
            sources[k].check # None =>
                LET c == sources[k].check[1]
                IN  /\ c.id \in DecidedChecks
                    /\ c.passed = WithinThresholds(TotalOf(c.id), c.min, c.max)
    /\ \A k, l \in 1..Len(sources) :
            (/\ sources[k].check # None
             /\ sources[l].check # None
             /\ sources[k].check[1].id = sources[l].check[1].id)
                => sources[k].check[1].passed = sources[l].check[1].passed

\* a check with min = max = 2 that passes on two matches found in two
\* different files, one match each, recorded as two Sources
C2_Witness ==
    \E k, l \in 1..Len(sources) :
        /\ k # l
        /\ sources[k].check[1].id = sources[l].check[1].id
        /\ sources[k].filename # sources[l].filename
        /\ sources[k].check[1].min = Some(2)
        /\ sources[k].check[1].max = Some(2)
        /\ Len(sources[k].check[1].matches) = 1
        /\ Len(sources[l].check[1].matches) = 1
        /\ sources[k].check[1].passed
        /\ sources[l].check[1].passed
        /\ sources[k].check[1].id \in FinishedChecks

\* C4: a check is enforceable exactly when a threshold is present: only
\* those checks enter the status list; a check without thresholds is always
\* given the status True, whatever its match count, zero included.
C4_InformationalAlwaysPasses ==
    /\ Len(check_status_list) =
            Cardinality({id \in DecidedChecks :
                check_list[id].min # None \/ check_list[id].max # None})
    /\ \A id \in DecidedChecks :
            (check_list[id].min = None /\ check_list[id].max = None)
                => /\ status_lines[id].passed
                   /\ \A k \in SourcesOf(id) : sources[k].check[1].passed

\* two checks without thresholds are over, one with no match and one with
\* three matches, and both were given the status True
C4_Witness ==
    \E i, j \in FinishedChecks :
        /\ check_list[i].min = None /\ check_list[i].max = None
        /\ check_list[j].min = None /\ check_list[j].max = None
        /\ total_lines[i].total = 0
        /\ total_lines[j].total = 3
        /\ status_lines[i].passed
        /\ status_lines[j].passed

\* C5: the summary of a run over N checks counts N checks, and passed_count
\* is the number of checks whose verdict is pass, the checks without
\* thresholds included.
C5_SummaryCountsEveryCheck ==
    total_result # None =>
        /\ total_result[1][2] = Len(check_list)
        /\ total_result[1][1] =
                Cardinality({id \in DecidedChecks : status_lines[id].passed})

\* C8: every Source of the document is named after one file, and every
\* match of its Check was found in that file.
C8_SourceScopedToOneFile ==
    \A k \in 1..Len(sources) :
        /\ sources[k].filename \in FileNames
        /\ sources[k].check # None
        /\ LET c == sources[k].check[1]
           IN  /\ Len(c.matches) = Len(c.raw_matches)
               /\ \A j \in 1..Len(c.raw_matches) :
                    /\ c.raw_matches[j].path = sources[k].filename
                    /\ c.matches[j].lineno = c.raw_matches[j].lineno
                    /\ c.matches[j].coloffset = c.raw_matches[j].col_offset

\* the engine's stream went from one file to another and back, and the
\* check is recorded as one Source per file
C8_Witness ==
    /\ pc = "files"
    /\ file_index > Len(match_dict)
    /\ Len(match_generator_list) = 3
    /\ match_generator_list[1].path = "a.py"
    /\ match_generator_list[2].path = "b.py"
    /\ match_generator_list[3].path = "a.py"
    /\ \E k, l \in SourcesOf(check_index) :
        /\ sources[k].filename = "a.py"
        /\ Len(sources[k].check[1].matches) = 2
        /\ sources[l].filename = "b.py"
        /\ Len(sources[l].check[1].matches) = 1

\* the Sources of the document are in the order of their checks
SourcesInCheckOrder ==
    \A k, l \in 1..Len(sources) :
        k < l => sources[k].check[1].id <= sources[l].check[1].id

\* when the files of a check have all been visited, every file the check
\* matched has exactly one Source with that check, whatever Sources the
\* earlier checks left for the file, and no other file has one
OneSourcePerMatchedFile ==
    (pc = "files" /\ file_index > Len(match_dict)) =>
        \A f \in FileNames :
            Cardinality({k \in SourcesOf(check_index) : sources[k].filename = f})
                = IF \E j \in 1..Len(match_generator_list) :
                        match_generator_list[j].path = f
                  THEN 1 ELSE 0

\* the document only grows at its end, by a Source that wraps one Check
SourcesOnlyAppended ==
    sources' # sources =>
        /\ Len(sources') = Len(sources) + 1
        /\ SubSeq(sources', 1, Len(sources)) = sources
        /\ Len(sources'[Len(sources')].check) = 1

\* C10: Sources are appended in the order of the checks and are never
\* merged by file name: a file matched by k checks has k Sources, each
\* wrapping one Check.
C10_AppendedInCheckOrder ==
    /\ [](SourcesInCheckOrder /\ OneSourcePerMatchedFile)
    /\ [][SourcesOnlyAppended]_vars

\* one file is matched by both checks of a run and has two Sources
C10_Witness ==
    /\ pc = "done"
    /\ \E k, l \in 1..Len(sources) :
        /\ k < l
        /\ sources[k].filename = sources[l].filename
        /\ sources[k].check[1].id = 1
        /\ sources[l].check[1].id = 2

\* ------------------------------------------------------------------------
\* Properties of the run: failures, order and lifecycle
\* ------------------------------------------------------------------------

\* C11: when the query of a check raises, the failure that leaves analyze
\* is tagged with the id of the check whose pattern was being queried.
C11_FailureTaggedWithCheckId ==
    failure # None =>
        failure[1].check_id = Some(queries[Len(queries)].id)

\* once a query has failed nothing more happens to the run
NothingAfterFailure ==
    failure # None =>
        /\ queries' = queries
        /\ sources' = sources
        /\ saved' = saved
        /\ total_result' = total_result
        /\ exit_code' = exit_code

\* C12: a failed query is fatal: no later check is queried, no Source is
\* appended any more, and neither the (partial) document nor a summary is
\* handed on.
C12_QueryFailureIsFatal ==
    /\ [](failure # None =>
            /\ saved = <<>>
            /\ total_result = None
            /\ exit_code = None
            /\ queries[Len(queries)].id = check_list[Len(status_lines) + 1].id)
    /\ [][NothingAfterFailure]_vars

\* the query of the second check failed after the first check had left
\* Sources in the document: the document is not handed on
C12_Witness ==
    /\ failure # None
    /\ Len(queries) = 2
    /\ Len(sources) = 2
    /\ saved = <<>>
    /\ total_result = None

\* the steps of analyze in the order they may follow each other
StepOrder ==
    { <<"check", "filter">>, <<"filter", "evaluate">>, <<"evaluate", "files">>,
      <<"files", "check">>, <<"check", "raised">>, <<"check", "save">>,
      <<"save", "exit">>, <<"exit", "done">>, <<"start", "check">>,
      <<"start", "exited">> }

\* a query is issued only when every earlier check is decided and recorded,
\* and a check is organised, evaluated and recorded in that order
QueriedWhenEarlierChecksDone ==
    /\ pc' # pc => << pc, pc' >> \in StepOrder
    /\ queries' # queries =>
        /\ Len(queries') = Len(queries) + 1
        /\ Len(status_lines) = Len(queries)
        /\ Len(total_lines) = Len(queries)
        /\ sources' = sources

\* the checks are queried in the order of the configuration, and a check
\* in progress is the last one queried
QueriesInListOrder ==
    /\ Len(queries) <= Len(check_list)
    /\ \A k \in 1..Len(queries) : queries[k].id = check_list[k].id
    /\ pc \in {"filter", "evaluate", "files"} =>
            /\ Len(queries) = check_index
            /\ Len(total_lines) = check_index - 1
    /\ pc = "files" => Len(status_lines) = check_index
    /\ total_result # None => Len(queries) = Len(check_list)

\* C13: the checks are processed one after the other in the order of the
\* configuration: query, organise, evaluate and record of a check are over
\* before the next check is queried.
C13_ChecksRunInOrder ==
    /\ []QueriesInListOrder
    /\ [][QueriedWhenEarlierChecksDone]_vars

\* the second check has just been queried; the first is recorded
C13_Witness ==
    /\ pc = "filter"
    /\ Len(queries) = 2
    /\ queries[2].id = check_list[2].id
    /\ Len(total_lines) = 1
    /\ Cardinality(SourcesOf(1)) = 2

\* C14: a check without matches or a check that fails its thresholds is
\* an outcome, not an error: the loop goes on, every check is queried and
\* evaluated, and the complete document is handed to the writer.
C14_FailedCheckIsData ==
    /\ failure # None => Len(status_lines) < Len(queries)
    /\ pc = "done" =>
        /\ failure = None
        /\ Len(queries) = Len(check_list)
        /\ Len(status_lines) = Len(check_list)
        /\ Len(total_lines) = Len(check_list)
        /\ saved = << chasten_results_save >>

\* the first of two checks found nothing and failed; the second was
\* evaluated and recorded, and the document was handed on
C14_Witness ==
    /\ pc = "done"
    /\ Len(check_list) = 2
    /\ total_lines[1].total = 0
    /\ ~status_lines[1].passed
    /\ Len(queries) = 2
    /\ Cardinality(SourcesOf(2)) = 1
    /\ saved = << chasten_results_save >>
    /\ exit_code = Some(1)

\* the document changes only inside the loop and before it is handed on,
\* and the Configuration does not change at all
DocumentChangesOnlyInLoop ==
    /\ chasten_configuration' = chasten_configuration
    /\ sources' # sources => (pc = "files" /\ saved = <<>> /\ saved' = <<>>)
    /\ saved' # saved => (pc = "save" /\ sources' = sources)

\* C18: the Configuration and the document are made once before any check,
\* Sources are appended only during the loop, the document is handed to
\* the writer once, after the last check, and nothing changes afterwards.
C18_DocumentLifecycle ==
    /\ [](/\ chasten_configuration = new_configuration
          /\ queries = <<>> => sources = <<>>
          /\ Len(saved) <= 1
          /\ saved # <<>> =>
                /\ pc \in {"exit", "done"}
                /\ Len(total_lines) = Len(check_list)
                /\ saved[1] = chasten_results_save
          /\ pc = "done" => Len(saved) = 1)
    /\ [][DocumentChangesOnlyInLoop]_vars

\* a run of two checks has ended; its document, with Sources of both
\* checks, was handed on once
C18_Witness ==
    /\ pc = "done"
    /\ Len(saved) = 1
    /\ SourcesOf(1) # {}
    /\ SourcesOf(2) # {}
    /\ saved[1].sources = sources
    /\ saved[1].configuration = new_configuration

\* C20: with the option value 1.0 every query of the run is issued with
\* xpath2 = False, otherwise with xpath2 = True, and the version logged
\* before the loop is the one every query uses.
C20_DialectFollowsOption ==
    \A k \in 1..Len(queries) :
        /\ queries[k].xpath2 = (xpath.value # "1.0")
        /\ logged_xpath = (IF queries[k].xpath2 THEN "2.0" ELSE "1.0")


\* ------------------------------------------------------------------------
\* The evaluation step on its own, from every count and pair of thresholds
\* ------------------------------------------------------------------------

EvalThresholds == {None} \cup {Some(v) : v \in 0..MaxCount}

InitEval ==
    /\ \E n \in 0..MaxCount, lo \in EvalThresholds, hi \in EvalThresholds :
        /\ check_list = << [id |-> 1, min |-> lo, max |-> hi] >>
        /\ match_generator_list = [i \in 1..n |-> RawMatch("a.py", 2, 2)]
        /\ match_dict = organize_matches([i \in 1..n |-> RawMatch("a.py", 2, 2)])
    /\ pc = "evaluate"
    /\ check_index = 1
    /\ check_status = TRUE
    /\ check_status_list = <<>>
    /\ current_check_save = None
    /\ current_result_source = None
    /\ file_index = 1
    /\ sources = <<>>
    /\ status_lines = <<>>
    /\ total_lines = <<>>
    /\ total_result = None
    /\ saved = None
    /\ exit_code = None
    /\ DefaultOptions
    /\ queries = << search_call(check_list[1], xpath) >>

SpecEval == InitEval /\ [][Evaluate]_vars

\* C3: a check with a threshold passes exactly when
\* min <= match count <= max, an absent min being 0 and an absent max
\* unbounded; with min = 2 and max = 5 the counts 2 to 5 pass and every
\* other count fails; count 0 passes with min = 0 and fails with min >= 1.
C3_PassIffWithinThresholds ==
    (pc = "files" /\ is_checkable(current_check.min, current_check.max)) =>
        LET n == Len(match_generator_list)
            lo == current_check.min
            hi == current_check.max
        IN  /\ check_status = WithinThresholds(n, lo, hi)
            /\ status_lines[1].passed = check_status
            /\ check_status_list = << check_status >>
            /\ (lo = Some(2) /\ hi = Some(5)) => (check_status <=> n \in 2..5)
            /\ (n = 0 /\ lo = Some(0)) => check_status
            /\ (n = 0 /\ lo # None /\ lo # Some(0)) => ~check_status

\* six matches against min = 2 and max = 5: the check fails
C3_Witness ==
    /\ pc = "files"
    /\ Len(match_generator_list) = 6
    /\ current_check.min = Some(2)
    /\ current_check.max = Some(5)
    /\ ~check_status
    /\ check_status_list = << FALSE >>

\* ------------------------------------------------------------------------
\* The recording of one match, from every file and position
\* ------------------------------------------------------------------------

\* the lines a file of the match model is made of
LineSet ==
    { <<"x">>,
      <<Space, Space, "y">>,
      <<Tab, "z">>,
      <<Space, Tab, Space, "w">> }

FilesUpTo(n) == UNION {[1..k -> LineSet] : k \in 1..n}

\* the characters Python counts as whitespace that a line can start with
Whitespace == {Space, Tab}

InitMatch ==
    /\ \E lines \in FilesUpTo(MaxLines) :
        \E lineno \in 1..Len(lines), col \in 0..MaxCol :
            LET raw == [kind |-> "Match", path |-> "a.py", file_lines |-> lines,
                        lineno |-> lineno, col_offset |-> col]
            IN  /\ match_generator_list = << raw >>
                /\ match_dict = organize_matches(<< raw >>)
    /\ check_list = << [id |-> 1, min |-> None, max |-> None] >>
    /\ pc = "files"
    /\ check_index = 1
    /\ check_status = TRUE
    /\ check_status_list = <<>>
    /\ current_check_save = None
    /\ current_result_source = Some(placeholder_source(1, None))
    /\ file_index = 1
    /\ sources = <<>>
    /\ status_lines = << [id |-> 1, passed |-> TRUE] >>
    /\ total_lines = <<>>
    /\ total_result = None
    /\ saved = None
    /\ exit_code = None
    /\ DefaultOptions
    /\ queries = << search_call(check_list[1], xpath) >>

SpecMatch == InitMatch /\ [][RecordFile]_vars

\* every recorded Match next to the raw match it was made from
RecordedMatches ==
    UNION { { << sources[k].check[1].raw_matches[j], sources[k].check[1].matches[j] >> :
                j \in 1..Len(sources[k].check[1].raw_matches) } :
            k \in 1..Len(sources) }

\* out is line without its longest prefix of characters of chars
LeadingStripped(line, out, chars) ==
    \E n \in 0..Len(line) :
        /\ \A i \in 1..n : line[i] \in chars
        /\ n = Len(line) \/ line[n + 1] \notin chars
        /\ out = SubSeq(line, n + 1, Len(line))

\* C6: the context of a match at line L of a file of n lines is the lines
\* max(1, L - 2) to min(n, L + 2) of the file, joined by newlines: two
\* lines before the match, the matched line and two lines after it.
C6_ContextTwoLinesEachSide ==
    \A rm \in RecordedMatches :
        LET raw == rm[1]
            n == Len(raw.file_lines)
        IN  rm[2].linematch_context =
                Join(SubSeq(raw.file_lines, Max2(1, raw.lineno - 2),
                            Min2(n, raw.lineno + 2)), Newline)

InitOrganize ==
    /\ match_generator_list \in StreamsUpTo(MaxStream + 1)
    /\ check_list = << [id |-> 1, min |-> None, max |-> None] >>
    /\ pc = "filter"
    /\ check_index = 1
    /\ match_dict = <<>>
    /\ check_status = TRUE
    /\ check_status_list = <<>>
    /\ current_check_save = None
    /\ current_result_source = None
    /\ file_index = 1
    /\ sources = <<>>
    /\ status_lines = <<>>
    /\ total_lines = <<>>
    /\ total_result = None
    /\ saved = None
    /\ exit_code = None
    /\ DefaultOptions
    /\ queries = << search_call(check_list[1], xpath) >>

SpecOrganize == InitOrganize /\ [][FilterOrganize]_vars

\* the real matches of a file in a stream, in the order of the stream
RealMatchesOf(stream, f) ==
    SelectSeq(stream, LAMBDA m : m.kind = "Match" /\ m.path = f)

\* groups is the stream organised: one group for each file that has a real
\* match, holding the real matches of that file in the order of the stream
Organised(stream, matches, groups) ==
    /\ matches = SelectSeq(stream, LAMBDA m : m.kind = "Match")
    /\ \A i, j \in 1..Len(groups) :
            groups[i].file_name = groups[j].file_name => i = j
    /\ \A i \in 1..Len(groups) :
            /\ groups[i].matches_list # <<>>
            /\ groups[i].matches_list = RealMatchesOf(stream, groups[i].file_name)
    /\ \A f \in FileNames :
            RealMatchesOf(stream, f) # <<>> =>
                \E i \in 1..Len(groups) : groups[i].file_name = f

\* C9: the organised output holds exactly the real matches of the stream:
\* the other records are dropped, every real match is in the group of its
\* own file and in no other, and each group keeps the order of the stream.
C9_OrganisedByFile ==
    [][pc = "filter" =>
            Organised(match_generator_list, match_generator_list', match_dict')]_vars

\* a stream that went a.py, b.py, a.py, with the later line of a.py first:
\* two groups, the group of a.py in the order of the stream
C9_Witness ==
    /\ pc = "evaluate"
    /\ Len(match_generator_list) = 3
    /\ match_generator_list[1] = RawMatch("a.py", 4, 0)
    /\ match_generator_list[2] = RawMatch("b.py", 2, 1)
    /\ match_generator_list[3] = RawMatch("a.py", 2, 2)
    /\ Len(match_dict) = 2
    /\ match_dict[1].file_name = "a.py"
    /\ match_dict[1].matches_list = << RawMatch("a.py", 4, 0), RawMatch("a.py", 2, 2) >>
    /\ match_dict[2].file_name = "b.py"
    /\ match_dict[2].matches_list = << RawMatch("b.py", 2, 1) >>

\* ------------------------------------------------------------------------
\* The integrate command: results documents combined into one
\* ------------------------------------------------------------------------

\* the most documents one call of integrate is given
MaxDocs == 3

\* the top-level keys a results document must have
Required_Keys == {"configuration", "sources"}

\* a Source as it stands in a saved document
SavedSource(file, id) == [filename |-> file, check |-> [id |-> id]]

\* two documents of different projects; a.py under check 1 is in both
DocA ==
    [configuration |-> [projectname |-> "A", debuglevel |-> "ERROR"],
     sources |-> << SavedSource("a.py", 1), SavedSource("b.py", 1) >>]

DocB ==
    [configuration |-> [projectname |-> "B", debuglevel |-> "ERROR"],
     sources |-> << SavedSource("a.py", 1) >>]

\* a document without the optional debuglevel, its Source without a check
DocSparse ==
    [configuration |-> [projectname |-> "C"],
     sources |-> << [filename |-> "b.py"] >>]

\* two documents that lack a required top-level key
DocNoSources == [configuration |-> [projectname |-> "D", debuglevel |-> "ERROR"]]

DocNoConfiguration == [sources |-> << SavedSource("b.py", 2) >>]

Documents == {DocA, DocB, DocSparse, DocNoSources, DocNoConfiguration}

\* the batches of parsed documents filesystem.get_json_results may return
Batches == UNION {[1..n -> Documents] : n \in 0..MaxDocs}

is_valid_document(document) == Required_Keys \subseteq DOMAIN document

\* the positions of the inputs that are reported as not being documents
shape_errors(dicts_list) ==
    {i \in 1..Len(dicts_list) : ~is_valid_document(dicts_list[i])}

\* the inputs are visited in order: the first valid one starts the
\* combined document, each later valid one extends its Source list
RECURSIVE combine_from(_, _)
combine_from(dicts_list, combined_dict) ==
    IF dicts_list = <<>> THEN combined_dict
    ELSE IF ~is_valid_document(Head(dicts_list))
         THEN combine_from(Tail(dicts_list), combined_dict)
    ELSE IF combined_dict = None
         THEN combine_from(Tail(dicts_list), Some(Head(dicts_list)))
    ELSE combine_from(Tail(dicts_list),
            Some([combined_dict[1] EXCEPT
                    !.sources = @ \o Head(dicts_list).sources]))

combine_dicts(dicts_list) == combine_from(dicts_list, None)

Reverse(seq) == [i \in 1..Len(seq) |-> seq[Len(seq) + 1 - i]]

\* the inputs handed over last first
combined_of_reversed(json_dicts_) == combine_dicts(Reverse(json_dicts_))

\* the inputs handed over twice
combined_of_repeated(json_dicts_) == combine_dicts(json_dicts_ \o json_dicts_)

\* nothing combined when one input is not a document
combined_of_clean_batch(json_dicts_) ==
    IF shape_errors(json_dicts_) # {} THEN None ELSE combine_dicts(json_dicts_)

\* integrate hands the parsed documents to combine_dicts once, as read
combined_of(json_dicts_) == combine_dicts(json_dicts_)

\* one call of integrate on a batch of parsed documents
Integrate ==
    /\ \E dicts_list \in Batches :
        /\ json_dicts' = dicts_list
        /\ combined_json_dict' = combined_of(dicts_list)
        /\ merge_errors' = shape_errors(dicts_list)
    /\ UNCHANGED << analyze_vars, constants_vars >>

\* the analyze command is not running: nothing configured, nothing done
AnalyzeIdle ==
    /\ check_list = <<>>
    /\ pc = "check"
    /\ check_index = 1
    /\ match_generator_list = <<>>
    /\ match_dict = <<>>
    /\ check_status = TRUE
    /\ check_status_list = <<>>
    /\ current_check_save = None
    /\ current_result_source = None
    /\ file_index = 1
    /\ sources = <<>>
    /\ status_lines = <<>>
    /\ total_lines = <<>>
    /\ total_result = None
    /\ saved = None
    /\ exit_code = None
    /\ queries = <<>>

InitMerge == AnalyzeIdle /\ DefaultOptions

SpecMerge == InitMerge /\ [][Integrate]_vars

\* the Sources of the valid documents of a batch, one document after the
\* other
RECURSIVE SourcesInInputOrder(_)
SourcesInInputOrder(dicts_list) ==
    IF dicts_list = <<>> THEN <<>>
    ELSE (IF is_valid_document(Head(dicts_list))
          THEN Head(dicts_list).sources ELSE <<>>)
         \o SourcesInInputOrder(Tail(dicts_list))

\* the number of Sources in the valid documents of a batch
RECURSIVE SourceCount(_)
SourceCount(dicts_list) ==
    IF dicts_list = <<>> THEN 0
    ELSE (IF is_valid_document(Head(dicts_list))
          THEN Len(Head(dicts_list).sources) ELSE 0)
         + SourceCount(Tail(dicts_list))

AllValid(dicts_list) == shape_errors(dicts_list) = {}

\* C15: the combined document of a batch of valid documents has the
\* Sources of the first input, then those of the second, and so on, none
\* dropped as a duplicate: as many Sources as the inputs have together.
C15_MergeConcatenatesSources ==
    (json_dicts # <<>> /\ AllValid(json_dicts)) =>
        /\ combined_json_dict # None
        /\ Required_Keys \subseteq DOMAIN combined_json_dict[1]
        /\ combined_json_dict[1].sources = SourcesInInputOrder(json_dicts)
        /\ Len(combined_json_dict[1].sources) = SourceCount(json_dicts)
        /\ Len(json_dicts) = 2 =>
                combined_json_dict[1].sources =
                    json_dicts[1].sources \o json_dicts[2].sources

\* A then B: the Source of a.py under check 1 is there twice
C15_Witness ==
    /\ json_dicts = << DocA, DocB >>
    /\ combined_json_dict # None
    /\ combined_json_dict[1].sources =
            << SavedSource("a.py", 1), SavedSource("b.py", 1),
               SavedSource("a.py", 1) >>

\* C16: one valid document combined on its own comes back equal to
\* itself, whatever was combined before, and the inputs of a call are
\* left as they were read.
C16_MergeOfOneIsIdentity ==
    /\ json_dicts \in Batches
    /\ (Len(json_dicts) = 1 /\ AllValid(json_dicts)) =>
            /\ combined_json_dict = Some(json_dicts[1])
            /\ combined_json_dict[1].configuration = json_dicts[1].configuration
            /\ combined_json_dict[1].sources = json_dicts[1].sources

C16_Witness ==
    /\ json_dicts = << DocA >>
    /\ combined_json_dict = Some(DocA)

\* C17: an input without a required key is reported and left out, and
\* the valid inputs are still combined; an input that lacks only an
\* optional field is combined like any other and is not reported.
C17_InvalidInputExcluded ==
    /\ merge_errors = {i \in 1..Len(json_dicts) :
                            ~(Required_Keys \subseteq DOMAIN json_dicts[i])}
    /\ \A i \in 1..Len(json_dicts) :
            json_dicts[i] = DocSparse => i \notin merge_errors
    /\ merge_errors # DOMAIN json_dicts =>
            /\ combined_json_dict # None
            /\ combined_json_dict[1].sources = SourcesInInputOrder(json_dicts)
    /\ (json_dicts # <<>> /\ merge_errors = DOMAIN json_dicts) =>
            combined_json_dict = None

\* a corrupt file between two good ones, the second good one sparse
C17_Witness ==
    /\ json_dicts = << DocA, DocNoSources, DocSparse >>
    /\ merge_errors = {2}
    /\ combined_json_dict # None
    /\ combined_json_dict[1].sources = DocA.sources \o DocSparse.sources

\* ------------------------------------------------------------------------
\* The constants records
\* ------------------------------------------------------------------------

\* the texts records are constructed from and assigned
Texts == {"", ".", "/new/path", "Yes"}

NewValues == {"/new/path", "YES", "NO"}

\* equality of two records: the same class and the same field values
dataclass_eq(a, b) ==
    /\ a.class = b.class
    /\ DOMAIN a = DOMAIN b
    /\ \A field \in DOMAIN a : a[field] = b[field]

\* the assignment goes through
setattr_mutable(record, field, value) ==
    [record |-> [record EXCEPT ![field] = value], raised |-> FALSE]

\* an assignment to a field of a frozen record: FrozenInstanceError is
\* raised and the record stays as it is
setattr_frozen(record, field, value) == [record |-> record, raised |-> TRUE]

\* one attempt to re-assign a field of one of the records
Assign ==
    /\ \E value \in NewValues :
        \/ \E k \in 1..2 :
            LET outcome == setattr_frozen(fs_records[k], "Current_Directory", value)
            IN  /\ fs_records' = [fs_records EXCEPT ![k] = outcome.record]
                /\ frozen_error' = outcome.raised
                /\ hr_record' = hr_record
        \/ \E field \in {"Yes", "No"} :
            LET outcome == setattr_frozen(hr_record, field, value)
            IN  /\ hr_record' = outcome.record
                /\ frozen_error' = outcome.raised
                /\ fs_records' = fs_records
    /\ UNCHANGED << analyze_vars, integrate_vars >>

\* records constructed from any texts
InitConstants ==
    /\ AnalyzeIdle
    /\ xpath = typer_path_option(None)
    /\ logged_xpath = logged_version(typer_path_option(None))
    /\ chasten_configuration = new_configuration
    /\ failure = None
    /\ IntegrateIdle
    /\ MarkdownIdle
    /\ \E dir1 \in Texts, dir2 \in Texts :
            fs_records = << Filesystem(dir1), Filesystem(dir2) >>
    /\ \E yes \in Texts, no \in Texts : hr_record = Humanreadable(yes, no)
    /\ frozen_error = FALSE

SpecConstants == InitConstants /\ [][Assign]_vars

\* every attempt to assign raises and leaves every record as it was
AssignmentRejected ==
    /\ frozen_error' = TRUE
    /\ fs_records' = fs_records
    /\ hr_record' = hr_record

\* C19: the constants records are frozen values: an assignment to
\* Current_Directory, Yes or No raises FrozenInstanceError and the field
\* keeps its value, and two Filesystem records are equal exactly when
\* their directories are.
C19_ConstantsAreFrozenValues ==
    /\ [](dataclass_eq(fs_records[1], fs_records[2]) <=>
            fs_records[1].Current_Directory = fs_records[2].Current_Directory)
    /\ [][AssignmentRejected]_vars

\* an assignment was attempted on records of different directories: it
\* raised, and the records are still different
C19_Witness ==
    /\ frozen_error
    /\ fs_records = << Filesystem("."), Filesystem("") >>
    /\ hr_record = Humanreadable("Yes", "")
    /\ ~dataclass_eq(fs_records[1], fs_records[2])

\* ------------------------------------------------------------------------
\* The end of a run: exit status and markdown report
\* ------------------------------------------------------------------------

\* an enforceable check of the run that did not pass
SomeEnforceableCheckFailed ==
    \E k \in 1..Len(check_list) :
        /\ check_list[k].min # None \/ check_list[k].max # None
        /\ ~WithinThresholds(total_lines[k].total,
                             check_list[k].min, check_list[k].max)

\* C21: a run that reached the end of its checks exits non-zero exactly
\* when an enforceable check failed (informational checks do not count, and
\* a run without enforceable checks succeeds); by then the document has
\* been handed to the writer and, when asked for, the markdown report has
\* been written.
C21_ExitStatusFollowsEnforceableChecks ==
    /\ pc = "exit" => saved = << chasten_results_save >>
    /\ pc = "done" =>
        /\ exit_code # None
        /\ exit_code[1] # 0 <=> SomeEnforceableCheckFailed
        /\ saved = << chasten_results_save >>
        /\ store_result # None => analysis_file = Some(analysis_result)

\* an informational check and a failed enforceable one, with a report asked
\* for: the report is written and the exit is non-zero
C21_Witness ==
    /\ pc = "done"
    /\ Len(check_list) = 2
    /\ check_list[1].min = None /\ check_list[1].max = None
    /\ check_list[2].min # None
    /\ status_lines[1].passed /\ ~status_lines[2].passed
    /\ store_result # None
    /\ Len(analysis_result) >= 3
    /\ analysis_file = Some(analysis_result)
    /\ saved = << chasten_results_save >>
    /\ exit_code = Some(Non_Zero_Exit)

\* a run that was ended on an existing analysis file has queried
\* nothing, has left the file as it was and has the exit status of the
\* case; a run that went on without --force did not start from a file
ExistingFileKept ==
    /\ pc = "exited" =>
        /\ store_result # None /\ ~force
        /\ analysis_file = Some(OldText)
        /\ queries = <<>> /\ sources = <<>> /\ saved = <<>>
        /\ total_result = None
        /\ exit_code = Some(IF display THEN 0 ELSE Non_Zero_Exit)
        /\ exit_code[1] = 0 <=> display
        /\ displayed = (IF display THEN << Some(OldText) >> ELSE <<>>)
    /\ (store_result # None /\ ~force /\ pc \notin {"start", "exited"}) =>
            analysis_file # Some(OldText)

\* with a report asked for and a file there, the first step without
\* --force ends the run; nothing follows the end; the file changes only
\* for a run that asked for a report and either has --force or had no file
FileChangesOnlyWhenAllowed ==
    /\ (pc = "start" /\ store_result # None /\ analysis_file # None /\ ~force) =>
            (pc' = "exited" /\ analysis_file' = analysis_file)
    /\ pc # "exited"
    /\ analysis_file' # analysis_file =>
            /\ store_result # None
            /\ force \/ analysis_file = None \/ pc = "exit"
            /\ pc = "start" => analysis_file' = Some(<<>>)
            /\ pc = "exit" => analysis_file' = Some(analysis_result)

\* C22: with a markdown report asked for and the analysis file already
\* there, a run without --force ends before any check is queried (status 0
\* after showing the file with --display, non-zero otherwise) and leaves the
\* file as it is; the file is cleared and later rewritten only with --force
\* or when it was not there.
C22_ExistingReportNeedsForce ==
    /\ []ExistingFileKept
    /\ [][FileChangesOnlyWhenAllowed]_vars

\* a configured run with --display ended on the existing file
C22_Witness ==
    /\ pc = "exited"
    /\ Len(check_list) = 2
    /\ display
    /\ displayed = << Some(OldText) >>
    /\ analysis_file = Some(OldText)
    /\ queries = <<>>
    /\ exit_code = Some(0)

\* ------------------------------------------------------------------------
\* Conservation of matches
\* ------------------------------------------------------------------------

\* the number of Matches in the Checks of the Sources at the positions ks
RECURSIVE MatchCount(_)
MatchCount(ks) ==
    IF ks = {} THEN 0
    ELSE LET k == CHOOSE x \in ks : TRUE
         IN  Len(sources[k].check[1].matches) + MatchCount(ks \ {k})

\* the raw matches kept for a file under a check, Source after Source
RECURSIVE RawKept(_, _, _)
RawKept(id, f, k) ==
    IF k > Len(sources) THEN <<>>
    ELSE (IF k \in SourcesOf(id) /\ sources[k].filename = f
          THEN sources[k].check[1].raw_matches ELSE <<>>)
         \o RawKept(id, f, k + 1)

\* C23: for every check the Matches in the Sources appended for it are as
\* many as the real matches counted for its thresholds and printed as its
\* total; every real match of the stream is kept once, in its file; and a
\* Check holds as many raw matches as serialized ones.
C23_MatchesConserved ==
    /\ \A k \in 1..Len(sources) :
            sources[k].check # None =>
                Len(sources[k].check[1].raw_matches)
                    = Len(sources[k].check[1].matches)
    /\ \A id \in FinishedChecks :
            /\ MatchCount(SourcesOf(id)) = total_lines[id].total
            /\ (check_list[id].min # None \/ check_list[id].max # None) =>
                    (status_lines[id].passed <=>
                        WithinThresholds(total_lines[id].total,
                                         check_list[id].min, check_list[id].max))
    /\ (pc = "files" /\ file_index > Len(match_dict)) =>
            /\ MatchCount(SourcesOf(check_index)) = Len(match_generator_list)
            /\ \A f \in FileNames :
                    RawKept(check_index, f, 1)
                        = RealMatchesOf(match_generator_list, f)

\* three real matches in two files, one of them reported twice: three
\* Matches in two Sources, and a printed total of three
C23_Witness ==
    /\ Len(total_lines) = 1
    /\ total_lines[1].total = 3
    /\ Cardinality(SourcesOf(1)) = 2
    /\ MatchCount(SourcesOf(1)) = 3
    /\ \E k \in SourcesOf(1) :
            /\ Len(sources[k].check[1].raw_matches) = 2
            /\ sources[k].check[1].raw_matches[1] = sources[k].check[1].raw_matches[2]

====
